---- MODULE Spec2Model ----
(***************************************************************************)
(* Whisper-TikTok, src/main.py: the batch loop of main(), the window       *)
(* planning and render command of prepare_background(), and convert_time(). *)
(*                                                                         *)
(* Durations are IEEE-754 doubles in the program (float(result.stdout) in  *)
(* get_info).  A non-negative double is modelled exactly, as the dyadic    *)
(* rational  ip + SUM_i fb[i] * 2^(-i):                                    *)
(*     [ip |-> integer part, fb |-> sequence of the bits after the point]  *)
(* so that the roundings of the floating-point operations are computed,    *)
(* not assumed away.                                                       *)
(***************************************************************************)
EXTENDS Integers, Sequences, FiniteSets, TLC

\* ------------------------------------------------------------------ bounds

\* Number of narration entries in video.json (jsonData).
NumVideos == 2
\* Largest number of words the transcription returns for one entry.
MaxWords == 1
\* convert_time is applied to every whole-millisecond duration 0..MaxFmtMs
\* (and to FmtExtra) in SpecFmt.
MaxFmtMs == 2100

\* Width of a double's significand.
MantBits == 53

\* ------------------------------------------------- doubles, bit by bit

RECURSIVE BitLen(_)
\* Number of binary digits of the natural number n (0 for 0).
BitLen(n) == IF n = 0 THEN 0 ELSE 1 + BitLen(n \div 2)

RECURSIVE Pow2Mod(_, _)
\* 2^n mod m, by repeated squaring.
Pow2Mod(n, m) ==
    IF n = 0 THEN 1 % m
    ELSE LET h == Pow2Mod(n \div 2, m)
         IN  (((h * h) % m) * (IF n % 2 = 1 THEN 2 ELSE 1)) % m

\* The first n binary digits after the point of k/1000 (0 <= k < 1000):
\* digit i is floor(k * 2^i / 1000) mod 2.
FracBits(k, n) ==
    [i \in 1..n |-> ((k * Pow2Mod(i, 2000)) % 2000) \div 1000]

\* What is left of k/1000 after n binary digits: (k * 2^n) mod 1000.
FracRem(k, n) == (k * Pow2Mod(n, 1000)) % 1000

RECURSIVE LeadingZeros(_)
\* Number of 0 digits of k/1000 after the point before its first 1 (0 < k < 1000).
LeadingZeros(k) ==
    IF 2 * k >= 1000 THEN 0 ELSE 1 + LeadingZeros(2 * k)

AllZero(s) == \A i \in DOMAIN s : s[i] = 0

\* Number of leading 0 bits of a bit sequence.
ZerosBefore(s) ==
    IF AllZero(s) THEN Len(s)
    ELSE (CHOOSE i \in DOMAIN s : s[i] = 1 /\ \A j \in 1..(i - 1) : s[j] = 0) - 1

\* The bit sequence plus one unit in its last place: [c |-> carry out, s |-> bits].
IncrBits(s) ==
    IF \A i \in DOMAIN s : s[i] = 1
    THEN [c |-> 1, s |-> [i \in DOMAIN s |-> 0]]
    ELSE LET p == CHOOSE i \in DOMAIN s :
                      s[i] = 0 /\ \A j \in (i + 1)..Len(s) : s[j] = 1
         IN  [c |-> 0,
              s |-> [i \in DOMAIN s |-> IF i < p THEN s[i]
                                        ELSE IF i = p THEN 1 ELSE 0]]

\* Round-half-even of the dyadic [ip, kept ++ dropped] at the last bit of kept;
\* up says whether the dropped part is above (2), at (1) or below (0) one half.
RoundAt(ip, kept, half) ==
    LET odd == IF kept = <<>> THEN ip % 2 = 1 ELSE kept[Len(kept)] = 1
        up  == half = 2 \/ (half = 1 /\ odd)
    IN  IF ~up THEN [ip |-> ip, fb |-> kept]
        ELSE LET r == IncrBits(kept) IN [ip |-> ip + r.c, fb |-> r.s]

\* How the tail of a bit sequence compares with one half of the unit before it.
HalfOf(tail) ==
    IF tail = <<>> \/ Head(tail) = 0 THEN 0
    ELSE IF AllZero(Tail(tail)) THEN 1 ELSE 2

\* Number of fraction bits a double with integer part ip keeps, when the
\* fraction's first 1 comes after z zeros.
KeptFracBits(ip, z) ==
    IF ip > 0 THEN MantBits - BitLen(ip) ELSE z + MantBits

\* float(text) for the decimal text of ms/1000 seconds: the double nearest to
\* ms/1000, ties to even.
ParseFloat(ms) ==
    LET ip == ms \div 1000
        k  == ms % 1000
    IN  IF k = 0 THEN [ip |-> ip, fb |-> <<>>]
        ELSE LET n   == KeptFracBits(ip, LeadingZeros(k))
                 rem == FracRem(k, n)
                 half == IF 2 * rem > 1000 THEN 2
                         ELSE IF 2 * rem = 1000 THEN 1 ELSE 0
             IN  RoundAt(ip, FracBits(k, n), half)

\* The dyadic d rounded to MantBits significant bits (d is any dyadic).
RoundDouble(d) ==
    LET n == KeptFracBits(d.ip, ZerosBefore(d.fb))
    IN  IF Len(d.fb) <= n THEN d
        ELSE RoundAt(d.ip, SubSeq(d.fb, 1, n),
                     HalfOf(SubSeq(d.fb, n + 1, Len(d.fb))))

RECURSIVE BitsToNat(_)
\* The natural number whose binary digits are s (at most 15 of them).
BitsToNat(s) ==
    IF Len(s) = 0 THEN 0
    ELSE IF Len(s) = 1 THEN s[1]
    ELSE LET h == Len(s) \div 2
         IN  BitsToNat(SubSeq(s, 1, h)) * 2^(Len(s) - h)
                 + BitsToNat(SubSeq(s, h + 1, Len(s)))

\* The n binary digits of v < 2^n.
NatToBits(v, n) == [i \in 1..n |-> (v \div 2^(n - i)) % 2]

RECURSIVE MulBits(_, _, _)
\* bits * c + carry, the carry entering at the last bit:
\* [c |-> carry into the integer part, s |-> bits].  Schoolbook multiplication
\* from the right, 15 digits at a time (c < 2^16, so no step overflows).
MulBits(s, c, carry) ==
    IF Len(s) <= 15
    THEN LET v == BitsToNat(s) * c + carry
         IN  [c |-> v \div 2^Len(s), s |-> NatToBits(v % 2^Len(s), Len(s))]
    ELSE LET h == Len(s) - 15
             r == MulBits(SubSeq(s, h + 1, Len(s)), c, carry)
             l == MulBits(SubSeq(s, 1, h), c, r.c)
         IN  [c |-> l.c, s |-> l.s \o r.s]

\* d * c in double arithmetic (c a small natural number): the exact product,
\* rounded to nearest.
FloatMul(d, c) ==
    LET r == MulBits(d.fb, c, 0)
    IN  RoundDouble([ip |-> d.ip * c + r.c, fb |-> r.s])

\* d - n for a natural n <= int(d): exact in double arithmetic (the result's
\* bits are a suffix of d's significand).
FloatSubInt(d, n) == [ip |-> d.ip - n, fb |-> d.fb]

\* d // n of Python floats, d >= 0: floor(d / n), computed from the exact fmod.
FloatFloorDiv(d, n) == [ip |-> d.ip \div n, fb |-> <<>>]

\* d % n of Python floats, d >= 0: fmod, which is exact.
FloatMod(d, n) == [ip |-> d.ip % n, fb |-> d.fb]

\* int(d): truncation.
FloatInt(d) == d.ip

\* round(d, 0) of a Python float: to the nearest integer, ties to even.
FloatRound0(d) == RoundAt(d.ip, <<>>, HalfOf(d.fb))

\* ----------------------------------------------------------- formatting

\* f"{n:02d}"
Fmt02d(n) == IF n < 10 THEN "0" \o ToString(n) ELSE ToString(n)

\* f"{n:03d}"
Fmt03d(n) ==
    IF n < 10 THEN "00" \o ToString(n)
    ELSE IF n < 100 THEN "0" \o ToString(n) ELSE ToString(n)

convert_time(time_in_seconds) ==
    LET hours   == FloatInt(FloatFloorDiv(time_in_seconds, 3600))
        minutes == FloatInt(FloatFloorDiv(FloatMod(time_in_seconds, 3600), 60))
        seconds == FloatInt(FloatMod(time_in_seconds, 60))
        milliseconds ==
            FloatInt(FloatMul(FloatSubInt(time_in_seconds,
                                          FloatInt(time_in_seconds)), 1000))
    IN  Fmt02d(hours) \o ":" \o Fmt02d(minutes) \o ":" \o Fmt02d(seconds)
            \o "." \o Fmt03d(milliseconds)

\* ------------------------------------------------------------- the inputs

\* video.json: the narration entries, in order.
jsonData ==
    [i \in 1..NumVideos |-> [series |-> "Story", part |-> i, path |-> "videos"]]

Videos == DOMAIN jsonData

\* Files the download step may have left in the background folder, with the
\* duration (whole milliseconds) ffprobe reports for each.
BackgroundMs == [f \in {"bg_a.mp4", "bg_b.mp4"} |->
                    IF f = "bg_a.mp4" THEN 3000 ELSE 4600]

\* Durations (whole milliseconds) of the mp3 files the speech synthesis writes.
AudioMs == {1400, 2500, 3400, 4600, 5001}

\* Exit codes of the ffmpeg process.
ExitCodes == {0, 1}

\* multiprocessing.cpu_count() of the machine.
cpu_count == 4

\* The exceptions the stages raise.
SynthesisFailed  == "edge_tts: no audio received"
TranscribeFailed == "RuntimeError: failed to load audio"
EmptyChoice      == "IndexError: cannot choose from an empty sequence"
NotAFloat        == "ValueError: could not convert string to float"
EmptyRange       == "ValueError: empty range for randrange()"
NoSuchProgram    == "FileNotFoundError: ffmpeg"

\* ---------------------------------------------------------------- state

VARIABLES
    pc,             \* position of main(): the statement executed next
    video_id,       \* index of the entry the for loop is at (0 before the loop)
    files,          \* os.listdir of the background folder
    filename,       \* path of the entry's mp3 file
    words,          \* words in the entry's transcription (-1: not transcribed)
    srt_filename,   \* what srt_create returned ("" before)
    background_mp4, \* what random_background returned ("" before)
    file_info,      \* probed duration of the background, in ms (-1 before)
    audio_info,     \* probed duration of the mp3, in ms (-1 before)
    ss,             \* prepare_background's start offset (-1 outside the call)
    audio_duration, \* prepare_background's formatted duration
    outfile,        \* prepare_background's output path
    args,           \* the ffmpeg argument list
    process,        \* per entry: its ffmpeg process
    output,         \* files in the output folder
    saved,          \* the "MP4 video saved successfully" messages logged
    ran,            \* per entry: the stages started, in order
    error           \* the exception that reached __main__ ("" if none)

vars == <<pc, video_id, files, filename, words, srt_filename, background_mp4,
          file_info, audio_info, ss, audio_duration, outfile, args, process,
          output, saved, ran, error>>

\* The locals of one prepare_background call.
callVars == <<audio_info, ss, audio_duration, outfile, args>>

Init ==
    /\ pc = "for"
    /\ video_id = 0
    /\ files \in SUBSET DOMAIN BackgroundMs
    /\ filename = ""
    /\ words = -1
    /\ srt_filename = ""
    /\ background_mp4 = ""
    /\ file_info = -1
    /\ audio_info = -1
    /\ ss = -1
    /\ audio_duration = ""
    /\ outfile = ""
    /\ args = <<>>
    /\ process = [i \in Videos |->
                    [status |-> "none", returncode |-> -1, outfile |-> ""]]
    /\ output = {}
    /\ saved = <<>>
    /\ ran = [i \in Videos |-> <<>>]
    /\ error = ""

\* ------------------------------------------------------------ operations

\* create_full_text: the mp3 path of an entry.
mp3_filename(video) ==
    video.path \o "/" \o video.series \o "/" \o video.series \o "_"
        \o ToString(video.part) \o ".mp3"

\* srt_create: the path it returns.
srt_path(video) ==
    video.path \o "/" \o video.series \o "/" \o video.series \o "_"
        \o ToString(video.part) \o ".srt"

\* random.randint(a, b): the values it can return; none when b < a, and the
\* call raises ValueError.
randint(a, b) == a..b

\* prepare_background, "Get starting time": the start offsets it can choose for
\* a background of `duration` whole seconds and the probed audio duration.
start_offsets(duration, audio) ==
    LET rounded == FloatInt(FloatRound0(audio))
    IN  {IF r < 0 THEN 0 ELSE r : r \in randint(0, duration - rounded)}

\* prepare_background: the output path.
output_path(start) == "output/output_" \o ToString(start) \o ".mp4"

\* A render command that trims the output instead of the background input:
\* -ss and -t placed after the inputs.
ffmpeg_args_trim_output(start, t, mp4, mp3, srt, out) ==
    << "ffmpeg",
       "-i", mp4,
       "-i", mp3,
       "-ss", ToString(start),
       "-t", t,
       "-map", "0:v",
       "-map", "1:a",
       "-filter:v", "subtitles=" \o srt,
       out, "-y" >>

\* prepare_background: the ffmpeg argument list.
ffmpeg_args(start, t, mp4, mp3, srt, out) ==
    << "ffmpeg",
       "-ss", ToString(start),
       "-t", t,
       "-i", mp4,
       "-i", mp3,
       "-map", "0:v",
       "-map", "1:a",
       "-filter:v",
       "crop=ih/16*9:ih, scale=w=1080:h=1920:flags=bicubic, gblur=sigma=2, subtitles="
           \o srt \o ":force_style=',Alignment=8,BorderStyle=7,Outline=3,Shadow=5,Blur=15,Fontsize=15,MarginL=45,MarginR=55,FontName=Lexend Bold'",
       "-c:v", "libx264", "-preset", "5",
       "-b:v", "5M",
       "-c:a", "aac", "-ac", "1",
       "-b:a", "96K",
       out, "-y",
       "-threads", ToString(cpu_count \div 2) >>

\* The trace of the current entry with `stage` started.
Started(stage) == [ran EXCEPT ![video_id] = Append(@, stage)]

\* A loop body that tries the failed statement again instead of letting the
\* exception go.
RetryStage(r, e) ==
    /\ pc' = pc
    /\ error' = e
    /\ ran' = [r EXCEPT ![video_id] = Append(@, "Failed")]

\* An exception raised inside the loop body: nothing in main() catches it, so
\* it leaves the for loop and main() and reaches the except clause of __main__.
Propagate(r, e) ==
    /\ pc' = "except"
    /\ error' = e
    /\ ran' = [r EXCEPT ![video_id] = Append(@, "Failed")]

\* A Popen that is not waited for.
no_wait(i) == TRUE

\* Popen.__exit__ at the end of the with block: returns once the process of
\* entry i has exited.
wait(i) == process[i].status = "exited"

\* for video_id, video in enumerate(jsonData): the next entry, and
\* create_full_text for it.  The entry's srt file does not exist yet (words);
\* the other locals of main() keep the previous entry's values.
ForNext ==
    /\ pc = "for"
    /\ video_id < NumVideos
    /\ video_id' = video_id + 1
    /\ filename' = mp3_filename(jsonData[video_id + 1])
    /\ words' = -1
    /\ pc' = "tts"
    /\ UNCHANGED <<files, srt_filename, background_mp4, file_info, callVars,
                   process, output, saved, ran, error>>

\* await tts(...): the speech synthesis writes the mp3, or raises.
Tts ==
    /\ pc = "tts"
    /\ \/ /\ pc' = "srt_create"
          /\ ran' = Started("Synthesizing")
          /\ UNCHANGED error
       \/ Propagate(Started("Synthesizing"), SynthesisFailed)
    /\ UNCHANGED <<video_id, files, filename, words, srt_filename,
                   background_mp4, file_info, callVars, process, output, saved>>

\* srt_create: transcribe the mp3 and write whatever came back as an srt file.
SrtCreate ==
    /\ pc = "srt_create"
    /\ \/ /\ \E n \in 0..MaxWords : words' = n
          /\ srt_filename' = srt_path(jsonData[video_id])
          /\ pc' = "random_background"
          /\ ran' = Started("Transcribing")
          /\ UNCHANGED error
       \/ /\ Propagate(Started("Transcribing"), TranscribeFailed)
          /\ UNCHANGED <<words, srt_filename>>
    /\ UNCHANGED <<video_id, files, filename, background_mp4, file_info,
                   callVars, process, output, saved>>

\* random_background: random.choice over the folder's listing.
RandomBackground ==
    /\ pc = "random_background"
    /\ IF files = {}
       THEN /\ Propagate(Started("SelectingBackground"), EmptyChoice)
            /\ UNCHANGED background_mp4
       ELSE /\ \E f \in files : background_mp4' = f
            /\ pc' = "get_info"
            /\ ran' = Started("SelectingBackground")
            /\ UNCHANGED error
    /\ UNCHANGED <<video_id, files, filename, words, srt_filename, file_info,
                   callVars, process, output, saved>>

\* get_info(background_mp4): ffprobe's duration, parsed by float(); text that
\* is no number raises ValueError, which except ffmpeg.Error does not catch.
GetInfo ==
    /\ pc = "get_info"
    /\ \/ /\ file_info' = BackgroundMs[background_mp4]
          /\ pc' = "prepare_background"
          /\ UNCHANGED <<ran, error>>
       \/ /\ Propagate(ran, NotAFloat)
          /\ UNCHANGED file_info
    /\ UNCHANGED <<video_id, files, filename, words, srt_filename,
                   background_mp4, callVars, process, output, saved>>

\* prepare_background, first statement: get_info(filename_mp3).
ProbeAudio ==
    /\ pc = "prepare_background"
    /\ \/ /\ \E a \in AudioMs : audio_info' = a
          /\ pc' = "randint"
          /\ ran' = Started("Planning")
          /\ UNCHANGED error
       \/ /\ Propagate(Started("Planning"), NotAFloat)
          /\ UNCHANGED audio_info
    /\ UNCHANGED <<video_id, files, filename, words, srt_filename,
                   background_mp4, file_info, ss, audio_duration, outfile, args,
                   process, output, saved>>

\* prepare_background: the start offset, the formatted duration, the output
\* path.  duration is int(file_info.get('duration')), passed by main().
PlanWindow ==
    /\ pc = "randint"
    /\ LET duration == FloatInt(ParseFloat(file_info))
           audio    == ParseFloat(audio_info)
           starts   == start_offsets(duration, audio)
       IN  IF starts = {}
           THEN /\ Propagate(ran, EmptyRange)
                /\ UNCHANGED <<ss, audio_duration, outfile>>
           ELSE /\ \E start \in starts :
                      /\ ss' = start
                      /\ outfile' = output_path(start)
                /\ audio_duration' = convert_time(audio)
                /\ pc' = "Popen"
                /\ UNCHANGED <<ran, error>>
    /\ UNCHANGED <<video_id, files, filename, words, srt_filename,
                   background_mp4, file_info, audio_info, args, process, output,
                   saved>>

\* prepare_background: build the argument list and start ffmpeg.
Popen ==
    /\ pc = "Popen"
    /\ LET a == ffmpeg_args(ss, audio_duration, "background/" \o background_mp4,
                            filename, srt_filename, outfile)
       IN  \/ /\ args' = a
              /\ process' = [process EXCEPT ![video_id] =
                                [status |-> "running", returncode |-> -1,
                                 outfile |-> outfile]]
              /\ pc' = "wait"
              /\ ran' = Started("Compositing")
              /\ UNCHANGED <<audio_info, ss, audio_duration, outfile, error>>
           \/ /\ Propagate(Started("Compositing"), NoSuchProgram)
              /\ audio_info' = -1 /\ ss' = -1 /\ audio_duration' = ""
              /\ outfile' = "" /\ args' = <<>>
              /\ UNCHANGED process
    /\ UNCHANGED <<video_id, files, filename, words, srt_filename,
                   background_mp4, file_info, output, saved>>

\* The ffmpeg process of entry i ends, with any exit code; on exit code 0 its
\* output file is written (-y: over whatever was there).
ProcessExit(i) ==
    /\ process[i].status = "running"
    /\ \E rc \in ExitCodes :
          /\ process' = [process EXCEPT ![i].status = "exited",
                                        ![i].returncode = rc]
          /\ output' = IF rc = 0 THEN output \cup {process[i].outfile}
                       ELSE output
    /\ UNCHANGED <<pc, video_id, files, filename, words, srt_filename,
                   background_mp4, file_info, callVars, saved, ran, error>>

\* The with block ends, prepare_background returns outfile (the exit code is
\* not read), and main() logs "MP4 video saved successfully".  The locals of
\* the call end with it.
Saved ==
    /\ pc = "wait"
    /\ wait(video_id)
    /\ saved' = Append(saved, [video_id |-> video_id, path |-> outfile])
    /\ ran' = Started("Done")
    /\ audio_info' = -1 /\ ss' = -1 /\ audio_duration' = ""
    /\ outfile' = "" /\ args' = <<>>
    /\ pc' = "for"
    /\ UNCHANGED <<video_id, files, filename, words, srt_filename,
                   background_mp4, file_info, process, output, error>>

\* The loop is over: main() returns True; __main__ runs finally and exits.
Return ==
    /\ pc = "for"
    /\ video_id = NumVideos
    /\ pc' = "exit"
    /\ UNCHANGED <<video_id, files, filename, words, srt_filename,
                   background_mp4, file_info, callVars, process, output, saved,
                   ran, error>>

\* __main__: except Exception logs the error; finally; sys.exit(1).
Except ==
    /\ pc = "except"
    /\ pc' = "exit"
    /\ UNCHANGED <<video_id, files, filename, words, srt_filename,
                   background_mp4, file_info, callVars, process, output, saved,
                   ran, error>>

Next ==
    \/ ForNext
    \/ Tts
    \/ SrtCreate
    \/ RandomBackground
    \/ GetInfo
    \/ ProbeAudio
    \/ PlanWindow
    \/ Popen
    \/ \E i \in Videos : ProcessExit(i)
    \/ Saved
    \/ Return
    \/ Except

Spec == Init /\ [][Next]_vars

\* ------------------------------------------- convert_time on its own

\* Durations convert_time is applied to beyond 0..MaxFmtMs, in milliseconds.
FmtExtra == {42370, 59999, 3599999, 3661001, 86399999, 360000500}

InitFmt ==
    /\ pc = "convert_time"
    /\ audio_info \in (0..MaxFmtMs) \cup FmtExtra
    /\ video_id = 0
    /\ files = {}
    /\ filename = ""
    /\ words = -1
    /\ srt_filename = ""
    /\ background_mp4 = ""
    /\ file_info = -1
    /\ ss = -1
    /\ audio_duration = ""
    /\ outfile = ""
    /\ args = <<>>
    /\ process = [i \in Videos |->
                    [status |-> "none", returncode |-> -1, outfile |-> ""]]
    /\ output = {}
    /\ saved = <<>>
    /\ ran = [i \in Videos |-> <<>>]
    /\ error = ""

\* audio_duration = convert_time(audio_info.get('duration'))
ConvertTime ==
    /\ pc = "convert_time"
    /\ audio_duration' = convert_time(ParseFloat(audio_info))
    /\ pc' = "converted"
    /\ UNCHANGED <<video_id, files, filename, words, srt_filename,
                   background_mp4, file_info, audio_info, ss, outfile, args,
                   process, output, saved, ran, error>>

SpecFmt == InitFmt /\ [][ConvertTime]_vars

\* ---------------------------------------------------------------- claims

\* The window of the running prepare_background call has been planned.
WindowPlanned == pc \in {"Popen", "wait"}

\* C1: for every probed background duration B and audio duration A with
\* B >= A > 0, window planning yields a start offset with 0 <= start and
\* start + A <= B (and does not raise).
C1_WindowInsideBackground ==
    (audio_info > 0 /\ file_info >= audio_info) =>
        /\ error # EmptyRange
        /\ WindowPlanned => (0 <= ss /\ ss * 1000 + audio_info <= file_info)

\* C2: for every B < A, window planning completes and the start offset is 0.
C2_DegradeStartsAtZero ==
    (audio_info > 0 /\ file_info >= 0 /\ file_info < audio_info) =>
        /\ error # EmptyRange
        /\ WindowPlanned => ss = 0

\* C3: a stage failure of one entry is not raised at the batch level, and
\* when the run ends every entry has been processed (is Done or Failed).
C3_FailureIsolated ==
    /\ error = ""
    /\ pc = "exit" =>
          \A i \in Videos :
              ran[i] # <<>> /\ ran[i][Len(ran[i])] \in {"Done", "Failed"}

\* C4: "MP4 video saved successfully" is logged only for an entry whose
\* render process exited with code 0.
C4_RenderFailureReported ==
    \A k \in DOMAIN saved : process[saved[k].video_id].returncode = 0

\* C5: an entry whose transcription is empty fails at Transcribing: no later
\* stage is started for it.
C5_EmptyTranscriptionFails ==
    (video_id \in Videos /\ words = 0) =>
        ran[video_id] = <<"Synthesizing", "Transcribing", "Failed">>

\* C6: no two entries of a run that reach Done have the same output path.
C6_DistinctOutputPaths ==
    \A j, k \in DOMAIN saved : j # k => saved[j].path # saved[k].path

StageOrder ==
    <<"Synthesizing", "Transcribing", "SelectingBackground", "Planning",
      "Compositing", "Done">>

IsPrefix(s, t) == Len(s) <= Len(t) /\ \A i \in DOMAIN s : s[i] = t[i]

\* The stages of a trace, without the Failed that ends it.
WithoutFailed(r) ==
    IF r # <<>> /\ r[Len(r)] = "Failed" THEN SubSeq(r, 1, Len(r) - 1) ELSE r

\* Number of stages started for the current entry when control is at p.
StagesBefore(p) ==
    CASE p = "tts" -> 0
      [] p = "srt_create" -> 1
      [] p = "random_background" -> 2
      [] p \in {"get_info", "prepare_background"} -> 3
      [] p \in {"randint", "Popen"} -> 4
      [] p = "wait" -> 5

\* C7: the stages started for an entry are, in order and each at most once, a
\* prefix of Synthesizing, Transcribing, SelectingBackground, Planning,
\* Compositing, Done (then Failed, if a stage failed); a stage is started
\* only when control has passed the stages before it; entries after the
\* current one have started nothing.
C7_StageOrderNoRetry ==
    /\ \A i \in Videos : IsPrefix(WithoutFailed(ran[i]), StageOrder)
    /\ \A i \in Videos : i > video_id => ran[i] = <<>>
    /\ pc \in {"tts", "srt_create", "random_background", "get_info",
               "prepare_background", "randint", "Popen", "wait"} =>
          ran[video_id] = SubSeq(StageOrder, 1, StagesBefore(pc))

C7_Witness ==
    /\ NumVideos >= 2
    /\ ran[1] = StageOrder
    /\ Len(ran[2]) >= 3
    /\ ran[2][Len(ran[2])] = "Failed"

Positions(tok) == {i \in DOMAIN args : args[i] = tok}

\* C9: in the argument list, -ss and -t occur once each, with the start offset
\* and the formatted duration as their values, before the first -i, which is
\* the background; the audio is the next input, with no option of its own;
\* the filter comes after the inputs and nothing re-offsets an input.
C9_TrimBeforeInputs ==
    args # <<>> =>
        /\ Cardinality(Positions("-ss")) = 1
        /\ Cardinality(Positions("-t")) = 1
        /\ Cardinality(Positions("-i")) = 2
        /\ Positions("-itsoffset") = {}
        /\ LET s == CHOOSE i \in Positions("-ss") : TRUE
               t == CHOOSE i \in Positions("-t") : TRUE
               bg == CHOOSE i \in Positions("-i") :
                         \A j \in Positions("-i") : i <= j
           IN  /\ s + 1 < bg /\ t + 1 < bg
               /\ args[s + 1] = ToString(ss)
               /\ args[t + 1] = audio_duration
               /\ args[bg + 1] = "background/" \o background_mp4
               /\ args[bg + 2] = "-i"
               /\ args[bg + 3] = filename
               /\ \A f \in Positions("-filter:v") : f > bg + 3

C9_Witness == pc = "wait" /\ args # <<>> /\ ss > 0

Running == {i \in Videos : process[i].status = "running"}

\* C10: at most one render process runs at any moment; while one runs, main()
\* is inside the with block of the same entry; so no two running renders have
\* the same output path.
C10_OneRenderAtATime ==
    /\ Cardinality(Running) <= 1
    /\ \A i \in Running : pc = "wait" /\ video_id = i
    /\ \A i, j \in Running :
          i # j => process[i].outfile # process[j].outfile

C10_Witness ==
    /\ NumVideos >= 2
    /\ process[1].status = "exited"
    /\ process[2].status = "running"

\* hh:mm:ss.mmm of a whole number of milliseconds.
hms(ms) ==
    Fmt02d(ms \div 3600000) \o ":" \o Fmt02d((ms \div 60000) % 60) \o ":"
        \o Fmt02d((ms \div 1000) % 60) \o "." \o Fmt03d(ms % 1000)

\* C8: the formatted duration of an audio of A whole milliseconds is A as
\* hh:mm:ss.mmm, mmm the exact millisecond remainder.
C8_ExactMilliseconds ==
    pc = "converted" => audio_duration = hms(audio_info)
====
